---- MODULE Spec2Model ----
(***************************************************************************)
(* State-machine model of the dataset-preparation scripts of               *)
(* halloween-gan: the cleaning pipeline (data/process_data.py), the        *)
(* scrapers (data/scrape_google_images.py, data/scrape_walmart_images.py)  *)
(* and the deduplication script (data/dedup_images.py).                    *)
(*                                                                         *)
(* Each script is a sequential program; `script` says which one runs and   *)
(* `pc` is its position.  The variables of the scripts that do not run     *)
(* keep their idle values.                                                 *)
(***************************************************************************)
EXTENDS Integers, Sequences, FiniteSets, TLC

VARIABLES
    script,          \* which script this run executes
    pc,              \* position of the running script
    \* ---- process_data.py ----
    yes,             \* args.yes
    answer,          \* what click.confirm returned: "none" | "yes" | "no"
    crop_faces,      \* args.crop_faces
    threshold,       \* args.face_image_ratio_threshold as <<num, den>>
    destExists,      \* args.dataset_destination.exists()
    destFiles,       \* file name -> index in `files` of the image it was saved from (0: there before the run)
    files,           \* list(get_files(...)), line 86
    idx,             \* position of the for loop in `files` (0: not started)
    face_detection_results, \* what detect_faces returned for files[idx]
    bounding_box,    \* what get_bounding_box returned for files[idx]
    outcome,         \* how the iteration for files[idx] ended
    image,           \* the image about to be saved: [width, top, bottom] in the cropped frame
    yielded,         \* index in `files` -> set of file names saved for it
    destination,     \* where args.dataset_destination lies: "outside" the source directory, or the directory of the source tree it is ("": the source directory itself)
    dataset_source,          \* the files of the source dataset that are still as they were
    elapsed,         \* clock ticks seen by the wait loop of _rmtree since timeout_time was set
    \* ---- dedup_images.py ----
    summarise,       \* args.summarise
    sourceTree,      \* the files under args.source_directory
    duplicates,      \* set(method.find_duplicates_to_remove(...))
    ddDestExists,    \* args.destination_directory.exists()
    ddDest,          \* the files of args.destination_directory: file name -> content
    all_image_filepaths, \* get_all_image_filepaths(args.source_directory)
    ddIdx,           \* how many of all_image_filepaths the copy loop has gone through
    \* ---- scrape_google_images.py ----
    max_images,      \* args.max_images
    links,           \* the seen-set of image URLs
    offset_index,    \* how many thumbnails earlier passes of the while loop went through
    nThumbnails,     \* len(thumbnails): the img elements of the page
    thumb,           \* how many thumbnails the for loop has taken
    images,          \* the src values of the clicked thumbnail still to be looked at
    \* ---- scrape_walmart_images.py ----
    sources,         \* the part of args.sources still to be scraped
    max_page,        \* max_page of the running scrape function (None: NoMaxPage)
    progress_n,      \* progress.n of the running scrape function
    fnResult,        \* result of the running scrape function
    result,          \* the module's result set
    pending,         \* the URLs the download loop has not reached yet
    asked,           \* how often the paging loop of the running scrape function has requested the page it is at
    \* ---- face_detection.py, get_default_model_files ----
    cache,           \* file key -> content of the file in the cache directory, or Absent
    nChecked,        \* how many entries of _DEFAULT_FILES the for loop has gone through
    requested,       \* the URLs download_file was called with, in order
    reused,          \* the keys whose iteration ended at the continue of line 82
    \* ---- both scrapers ----
    downloads,       \* URL -> number of times requests.get fetched it
    failed,          \* the URLs whose download raised
    seenAgain        \* the URLs met again after they were first collected

cleanVars == <<yes, answer, crop_faces, threshold, destExists, destFiles, files,
               idx, face_detection_results, bounding_box, outcome, image, yielded,
               destination, dataset_source, elapsed>>

ddVars == <<summarise, sourceTree, duplicates, ddDestExists, ddDest, all_image_filepaths, ddIdx>>

googleVars == <<max_images, links, offset_index, nThumbnails, thumb, images>>
walmartVars == <<sources, max_page, progress_n, fnResult, result, pending, asked>>
logVars == <<downloads, failed, seenAgain>>
modelFileVars == <<cache, nChecked, requested, reused>>

vars == <<script, pc, cleanVars, ddVars, googleVars, walmartVars, logVars, modelFileVars>>

notClean == <<ddVars, googleVars, walmartVars, logVars, modelFileVars>>
notDedup == <<cleanVars, googleVars, walmartVars, logVars, modelFileVars>>
notGoogle == <<cleanVars, ddVars, walmartVars, modelFileVars>>
notWalmart == <<cleanVars, ddVars, googleVars, modelFileVars>>
notModelFiles == <<cleanVars, ddVars, googleVars, walmartVars, logVars>>

----------------------------------------------------------------------------
(* Bounds of the model *)

\* Pixel grid of a source image: x in 0..MaxX, y in 0..MaxY.
MaxX == 2
MaxY == 10
\* The subject box starts at most MaxOff pixels inside the image border.
MaxOff == 1
\* The face detector returns at most MaxFaces faces.
MaxFaces == 2
\* The servers know image ids 1..MaxUrlId.
MaxUrlId == 2
\* The Google Images page shows at most MaxThumbnails img elements.
MaxThumbnails == 3
\* A clicked thumbnail shows at most MaxPreviews img.n3VNCb elements.
MaxPreviews == 2
\* --max-images is at most MaxImagesArg.
MaxImagesArg == 2
\* A Walmart search has at most MaxPage pages of results.
MaxPage == 2
\* The requests of a page are counted up to MaxAsked.
MaxAsked == 2
\* The timeout of _rmtree (10 seconds) lasts TimeoutTicks ticks of the clock.
TimeoutTicks == 2
\* A file of the model cache is at most MaxFileLen bytes long.
MaxFileLen == 2
\* The digests of the model's hash function are 0..DigestSpace-1.
DigestSpace == 5

----------------------------------------------------------------------------
(* Image URLs *)

\* A URL string, by the parts the scrapers look at: the site that serves it,
\* the image it shows, and the path segment or query that selects a size.
Url(site, id, variant) == [site |-> site, id |-> id, variant |-> variant]

\* An img element without a src attribute.
NoSrc == Url("none", 0, "")

\* The src values a clicked Google thumbnail may show.
GoogleSrcs == {Url("google", i, "") : i \in 1..MaxUrlId} \cup {NoSrc}

\* The src values of the product images of a walmart.ca result page.
CaThumbs == {Url("ca", i, v) : i \in 1..MaxUrlId, v \in {"Thumbnails/", "Large/"}}

\* The src values of the item images of a walmart.com result page.
ComThumbs ==
    {Url("com/asr", i, v) : i \in 1..MaxUrlId, v \in {"odnWidth=100&odnHeight=100", "odnWidth=200&odnHeight=200"}}
        \cup {Url("com/other", i, "") : i \in 1..MaxUrlId}

\* lines 98-118: the original image's URL, or NoSrc for None
get_walmart_image(image_url) ==
    IF image_url.site = "ca" /\ image_url.variant = "Thumbnails/"
    THEN Url("ca", image_url.id, "Enlarge/")
    ELSE IF image_url.site = "com/asr"
    THEN Url("com/asr", image_url.id, "odnWidth=&odnHeight=")
    ELSE NoSrc

AllUrls ==
    (GoogleSrcs \ {NoSrc})
        \cup ({get_walmart_image(u) : u \in CaThumbs \cup ComThumbs} \ {NoSrc})

\* max_page = None (line 125)
NoMaxPage == -1

\* The page the paging loop is at has not been requested yet.
NotAsked == 0

\* get_bs4(ROOT_URL, ..., page) within a paging loop (lines 139, 184)
Ask(n) == IF n < MaxAsked THEN n + 1 ELSE n

IdleGoogle ==
    /\ max_images = 0
    /\ links = {}
    /\ offset_index = 0
    /\ nThumbnails = 0
    /\ thumb = 0
    /\ images = <<>>

IdleWalmart ==
    /\ sources = <<>>
    /\ max_page = NoMaxPage
    /\ progress_n = 0
    /\ fnResult = {}
    /\ result = {}
    /\ pending = {}
    /\ asked = NotAsked

IdleLog ==
    /\ downloads = [u \in AllUrls |-> 0]
    /\ failed = {}
    /\ seenAgain = {}

IdleModelFiles ==
    /\ cache = <<>>
    /\ nChecked = 0
    /\ requested = <<>>
    /\ reused = {}

----------------------------------------------------------------------------
(* process_data.py *)

\* The source dataset directory: a.png and sub/a.jpg share a stem.
SourceFiles ==
    { [dir |-> "", stem |-> "a", ext |-> "png"],
      [dir |-> "", stem |-> "b", ext |-> "jpg"],
      [dir |-> "sub", stem |-> "a", ext |-> "jpg"],
      [dir |-> "", stem |-> "notes", ext |-> "txt"] }

\* --file-glob-patterns, by the extension each pattern matches.
file_glob_patterns == <<"png", "jpeg", "jpg">>

\* The order in which one glob yields its matches (a directory before its
\* subdirectories).
GlobOrder(S) ==
    LET top == {f \in S : f.dir = ""}
        sub == S \ top
        RECURSIVE Enum(_)
        Enum(T) == IF T = {} THEN <<>>
                   ELSE LET f == CHOOSE g \in T : TRUE IN <<f>> \o Enum(T \ {f})
    IN Enum(top) \o Enum(sub)

RECURSIVE get_files(_, _)
get_files(source, patterns) ==
    IF patterns = <<>> THEN <<>>
    ELSE GlobOrder({f \in source : f.ext = Head(patterns)})
             \o get_files(source, Tail(patterns))

\* Values of --face_image_ratio_threshold the runs are given, as <<num, den>>.
\* 1/20 is the default, 0.05 (line 62).
Thresholds == { <<1, 20>>, <<1, 1>> }

\* A box is <<x1, y1, x2, y2>>.
FaceBoxes ==
    { <<x1, y1, x2, y2>> : x1 \in 0..MaxX, y1 \in 0..MaxY, x2 \in 0..MaxX, y2 \in 0..MaxY }

WellFormed(b) == b[1] < b[3] /\ b[2] < b[4]

\* detect_faces: a list of FaceDetectionResult, here of their bounding boxes.
DetectFacesResults ==
    { [i \in 1..n |-> b] : n \in 1..MaxFaces, b \in {f \in FaceBoxes : WellFormed(f)} }
        \cup { <<>> }

\* u2net.get_bounding_box: the subject's box, inside the image and not empty.
SubjectBoxes ==
    { b \in { <<x1, y1, x2, y2>> : x1 \in 0..MaxOff, y1 \in 0..MaxOff,
                                   x2 \in (MaxX - MaxOff)..MaxX, y2 \in (MaxY - MaxOff)..MaxY } :
        WellFormed(b) /\ b[1] >= 0 /\ b[2] >= 0 }

NoBox == <<0, 0, 0, 0>>
NoImage == [width |-> 0, top |-> 0, bottom |-> 0]

\* Python's round() of the rational p / q (q > 0): to the nearest integer,
\* a tie to the even one.
PyRound(p, q) ==
    LET fl == p \div q
        r == p % q
    IN IF 2 * r < q THEN fl
       ELSE IF 2 * r > q THEN fl + 1
       ELSE IF fl % 2 = 0 THEN fl ELSE fl + 1

fbb_width(fbb) == fbb[3] - fbb[1]
fbb_height(fbb) == fbb[4] - fbb[2]

\* image.size after image.crop(bounding_box)
image_width(bb) == bb[3] - bb[1]
image_height(bb) == bb[4] - bb[2]

\* Mutant: the ratio over the area of the image before it was cropped.
face_image_ratio_Original(fbb, bb) ==
    << fbb_width(fbb) * fbb_height(fbb), MaxX * MaxY >>

\* face_image_ratio as <<numerator, denominator>> (line 118)
face_image_ratio(fbb, bb) ==
    << fbb_width(fbb) * fbb_height(fbb), image_width(bb) * image_height(bb) >>

\* Mutant: the comparison made inclusive.
RatioRejected_Inclusive(ratio, thr) == ratio[1] * thr[2] >= thr[1] * ratio[2]

\* face_image_ratio > args.face_image_ratio_threshold (line 119)
RatioRejected(ratio, thr) == ratio[1] * thr[2] > thr[1] * ratio[2]

\* Mutant: the face's bottom edge left in the original image's frame.
adjusted_fbb_y2_Untranslated(fbb, bb) == fbb[4]

\* line 128
adjusted_fbb_y2(fbb, bb) == fbb[4] - bb[2]

\* The upper coordinate of the crop box of line 129, as PIL rounds it:
\* round(adjusted_fbb_y2 - fbb_height * 0.10).
FaceCropUpper(adj, fh) == PyRound(10 * adj - fh, 10)

\* The image after lines 122-129: rows top..bottom-1 of the cropped image
\* (rows above 0 are padding PIL adds).
CropFaces(crop, fbb, bb) ==
    IF crop
    THEN [width |-> image_width(bb),
          top |-> FaceCropUpper(adjusted_fbb_y2(fbb, bb), fbb_height(fbb)),
          bottom |-> image_height(bb)]
    ELSE [width |-> image_width(bb), top |-> 0, bottom |-> image_height(bb)]

\* Mutant: only an image without faces is skipped.
SkipFaceCount_OnlyZero(results) == Len(results) = 0

\* line 93: len(face_detection_results) != 1
SkipFaceCount(results) == Len(results) # 1

\* Mutant: InvalidImageError is not caught.
AfterInvalidImage_Raise == "crashed"

\* lines 102-103: where the loop goes on InvalidImageError
AfterInvalidImage == "loop"

\* Mutant: any existing destination is cleared.
DestinationInUse_Exists(exists, contents) == exists

\* line 71: the destination exists and holds something
DestinationInUse(exists, contents) == exists /\ contents # {}

\* Mutant: the source file's extension is kept.
DestinationName_KeepExt(file) == [stem |-> file.stem, ext |-> file.ext]

\* line 138
DestinationName(file) == [stem |-> file.stem, ext |-> "png"]

Save(dest, name, i) ==
    [n \in DOMAIN dest \cup {name} |-> IF n = name THEN i ELSE dest[n]]

OldFile == [stem |-> "old", ext |-> "png"]
NoFiles == [n \in {} |-> 0]

\* Where --destination may point: outside the source directory (as the
\* default, <source parent>/<source stem>_cleaned, does), at the source
\* directory itself (""), or at its subdirectory sub.
Destinations == {"outside", "", "sub"}

\* The file lies in the directory d of the source tree or below it.
Inside(file, d) == d # "outside" /\ (d = "" \/ file.dir = d)

\* iterdir() of the directory d of the source tree: its files, and
\* the subdirectories that hold files.
DirEntries(tree, d) ==
    {[stem |-> f.stem, ext |-> f.ext] : f \in {g \in tree : g.dir = d}}
        \cup {[stem |-> f.dir, ext |-> ""] : f \in {g \in tree : d = "" /\ g.dir # ""}}

\* shutil.rmtree(path): the source files that are left
RemoveTree(tree, d) == {f \in tree : ~Inside(f, d)}

\* image.save(destination / name): the source files that are left as they were
Overwrite(tree, d, name) ==
    {f \in tree : ~(f.dir = d /\ f.stem = name.stem /\ f.ext = name.ext)}

IdleClean ==
    /\ yes = FALSE
    /\ answer = "none"
    /\ crop_faces = FALSE
    /\ threshold = <<1, 20>>
    /\ destExists = FALSE
    /\ destFiles = NoFiles
    /\ files = <<>>
    /\ idx = 0
    /\ face_detection_results = <<>>
    /\ bounding_box = NoBox
    /\ outcome = "none"
    /\ image = NoImage
    /\ yielded = <<>>
    /\ destination = "outside"
    /\ dataset_source = {}
    /\ elapsed = 0

IdleDedup ==
    /\ summarise = FALSE
    /\ sourceTree = NoFiles
    /\ duplicates = {}
    /\ ddDestExists = FALSE
    /\ ddDest = NoFiles
    /\ all_image_filepaths = <<>>
    /\ ddIdx = 0

InitClean ==
    /\ script = "clean"
    /\ IdleDedup /\ IdleGoogle /\ IdleWalmart /\ IdleLog /\ IdleModelFiles
    /\ pc = "start"
    /\ yes \in BOOLEAN
    /\ answer = "none"
    /\ crop_faces \in BOOLEAN
    /\ threshold \in Thresholds
    /\ dataset_source = SourceFiles
    /\ destination \in Destinations
    /\ IF destination = "outside"
       THEN \E d \in {"absent", "empty", "nonempty"} :
               /\ destExists = (d # "absent")
               /\ destFiles = IF d = "nonempty" THEN [n \in {OldFile} |-> 0] ELSE NoFiles
       ELSE /\ destExists = TRUE
            /\ destFiles = [n \in DirEntries(SourceFiles, destination) |-> 0]
    /\ elapsed = 0
    /\ files = <<>>
    /\ idx = 0
    /\ face_detection_results = <<>>
    /\ bounding_box = NoBox
    /\ outcome = "none"
    /\ image = NoImage
    /\ yielded = <<>>

\* lines 71-77: the destination exists and holds something
CheckDestination ==
    /\ script = "clean" /\ pc = "start"
    /\ IF DestinationInUse(destExists, DOMAIN destFiles)
       THEN IF ~yes
            THEN \E a \in {"yes", "no"} :
                    /\ answer' = a
                    /\ pc' = IF a = "yes" THEN "rmtree" ELSE "aborted"
            ELSE /\ pc' = "rmtree"
                 /\ UNCHANGED answer
       ELSE /\ pc' = "mkdir"
            /\ UNCHANGED answer
    /\ UNCHANGED <<script, yes, crop_faces, threshold, destExists, destFiles, files,
                   idx, face_detection_results, bounding_box, outcome, image, yielded>>
    /\ UNCHANGED <<destination, dataset_source, elapsed>>
    /\ UNCHANGED notClean

\* line 40: path.is_dir()
WaitFor(is_dir) == is_dir

\* line 44: time.time() <= timeout_time
WithinTimeout(ticks) == ticks <= TimeoutTicks

\* line 79, lines 38-43: shutil.rmtree, after which the directory may still
\* be there for a while; timeout_time is set if it is
Rmtree ==
    /\ script = "clean" /\ pc = "rmtree"
    /\ destFiles' = NoFiles
    /\ dataset_source' = RemoveTree(dataset_source, destination)
    /\ \E is_dir \in BOOLEAN :
          /\ destExists' = is_dir
          /\ pc' = IF WaitFor(is_dir) THEN "rm_wait" ELSE "mkdir"
    /\ elapsed' = 0
    /\ UNCHANGED <<script, yes, answer, crop_faces, threshold, files,
                   idx, face_detection_results, bounding_box, outcome, image, yielded>>
    /\ UNCHANGED destination
    /\ UNCHANGED notClean

\* lines 44-46: one test of the while loop; the clock may have moved on
\* since the last one, and the directory may have gone
RmtreeWait ==
    /\ script = "clean" /\ pc = "rm_wait"
    /\ \E tick \in {0, 1} :
          /\ elapsed' = elapsed + tick
          /\ IF WithinTimeout(elapsed')
             THEN \E is_dir \in BOOLEAN :
                     /\ destExists' = is_dir
                     /\ pc' = IF is_dir THEN "rm_wait" ELSE "mkdir"
             ELSE /\ pc' = "mkdir"
                  /\ UNCHANGED destExists
    /\ UNCHANGED <<script, yes, answer, crop_faces, threshold, destFiles, files,
                   idx, face_detection_results, bounding_box, outcome, image, yielded>>
    /\ UNCHANGED <<destination, dataset_source>>
    /\ UNCHANGED notClean

\* lines 81-86
Mkdir ==
    /\ script = "clean" /\ pc = "mkdir"
    /\ destExists' = TRUE
    /\ files' = get_files(dataset_source, file_glob_patterns)
    /\ yielded' = [i \in 1..Len(files') |-> {}]
    /\ elapsed' = 0
    /\ pc' = "loop"
    /\ UNCHANGED <<script, yes, answer, crop_faces, threshold, destFiles,
                   idx, face_detection_results, bounding_box, outcome, image>>
    /\ UNCHANGED <<destination, dataset_source>>
    /\ UNCHANGED notClean

\* line 88: the next file, or the end of the list
NextFile ==
    /\ script = "clean" /\ pc = "loop"
    /\ IF idx < Len(files)
       THEN /\ idx' = idx + 1
            /\ pc' = "detect"
            /\ face_detection_results' = <<>>
            /\ bounding_box' = NoBox
            /\ outcome' = "none"
            /\ image' = NoImage
       ELSE /\ pc' = "done"
            /\ UNCHANGED <<idx, face_detection_results, bounding_box, outcome, image>>
    /\ UNCHANGED <<script, yes, answer, crop_faces, threshold, destExists, destFiles,
                   files, yielded>>
    /\ UNCHANGED <<destination, dataset_source, elapsed>>
    /\ UNCHANGED notClean

\* lines 92-94 (face_detection.py lines 134-187)
DetectFaces ==
    /\ script = "clean" /\ pc = "detect"
    /\ \/ \* cv2.imread returned None: image.shape raises
          /\ outcome' = "unreadable"
          /\ pc' = "crashed"
          /\ UNCHANGED face_detection_results
       \/ \E r \in DetectFacesResults :
             /\ face_detection_results' = r
             /\ IF SkipFaceCount(r)
                THEN outcome' = "face_count" /\ pc' = "loop"
                ELSE outcome' = "none" /\ pc' = "segment"
    /\ UNCHANGED <<script, yes, answer, crop_faces, threshold, destExists, destFiles,
                   files, idx, bounding_box, image, yielded>>
    /\ UNCHANGED <<destination, dataset_source, elapsed>>
    /\ UNCHANGED notClean

\* lines 96-139
ProcessImage ==
    /\ script = "clean" /\ pc = "segment"
    /\ \/ \* InvalidImageError
          /\ outcome' = "invalid_subject"
          /\ pc' = AfterInvalidImage
          /\ UNCHANGED <<bounding_box, image, destFiles, yielded, dataset_source>>
       \/ \E bb \in SubjectBoxes :
             LET fbb == face_detection_results[1]
                 out == CropFaces(crop_faces, fbb, bb)
                 name == DestinationName(files[idx])
             IN /\ bounding_box' = bb
                /\ IF RatioRejected(face_image_ratio(fbb, bb), threshold)
                   THEN /\ outcome' = "ratio_rejected"
                        /\ pc' = "loop"
                        /\ UNCHANGED <<image, destFiles, yielded, dataset_source>>
                   ELSE /\ image' = out
                        /\ IF out.top < out.bottom
                           THEN /\ outcome' = "written"
                                /\ pc' = "loop"
                                /\ destFiles' = Save(destFiles, name, idx)
                                /\ dataset_source' = Overwrite(dataset_source, destination, name)
                                /\ yielded' = [yielded EXCEPT ![idx] = @ \cup {name}]
                           ELSE \* an image without rows: what crop and save do
                                \* with it depends on the Pillow version
                                \E raises \in BOOLEAN, leaves \in BOOLEAN :
                                   /\ raises \/ leaves
                                   /\ outcome' = IF raises THEN "save_failed" ELSE "written"
                                   /\ pc' = IF raises THEN "crashed" ELSE "loop"
                                   /\ IF leaves
                                      THEN /\ destFiles' = Save(destFiles, name, idx)
                                           /\ dataset_source' = Overwrite(dataset_source, destination, name)
                                           /\ yielded' = [yielded EXCEPT ![idx] = @ \cup {name}]
                                      ELSE UNCHANGED <<destFiles, yielded, dataset_source>>
    /\ UNCHANGED <<script, yes, answer, crop_faces, threshold, destExists, files,
                   idx, face_detection_results>>
    /\ UNCHANGED <<destination, elapsed>>
    /\ UNCHANGED notClean

\* utils.py lines 25-38: rmtree called on a directory; utils.py has no
\* `import time`, so the first time.time() of the wait raises NameError
UtilsRmtree ==
    /\ script = "utils" /\ pc = "rmtree"
    /\ destFiles' = NoFiles
    /\ \E is_dir \in BOOLEAN :
          /\ destExists' = is_dir
          /\ pc' = IF WaitFor(is_dir) THEN "rm_raised" ELSE "rm_returned"
    /\ UNCHANGED <<script, yes, answer, crop_faces, threshold, files,
                   idx, face_detection_results, bounding_box, outcome, image, yielded>>
    /\ UNCHANGED <<destination, dataset_source, elapsed>>
    /\ UNCHANGED notClean

\* A caller of utils.rmtree with a directory to remove.
InitUtils ==
    /\ script = "utils"
    /\ pc = "rmtree"
    /\ IdleDedup /\ IdleGoogle /\ IdleWalmart /\ IdleLog /\ IdleModelFiles
    /\ yes = FALSE
    /\ answer = "none"
    /\ crop_faces = FALSE
    /\ threshold = <<1, 20>>
    /\ destExists = TRUE
    /\ \E S \in SUBSET {OldFile} : destFiles = [n \in S |-> 0]
    /\ files = <<>>
    /\ idx = 0
    /\ face_detection_results = <<>>
    /\ bounding_box = NoBox
    /\ outcome = "none"
    /\ image = NoImage
    /\ yielded = <<>>
    /\ destination = "outside"
    /\ dataset_source = {}
    /\ elapsed = 0

NextClean == CheckDestination \/ Rmtree \/ RmtreeWait \/ Mkdir \/ NextFile \/ DetectFaces \/ ProcessImage

SpecClean == InitClean /\ [][NextClean]_vars

\* The two directory-removal helpers: _rmtree within the pipeline, and
\* utils.rmtree called on its own.
InitRmtree == InitClean \/ InitUtils

NextRmtree == NextClean \/ UtilsRmtree

SpecRmtree == InitRmtree /\ [][NextRmtree]_vars

----------------------------------------------------------------------------
(* dedup_images.py *)

\* What the source directory may hold: a.png at the top and in a
\* subdirectory, and a file OpenCV cannot read as an image.
DedupUniverse ==
    { [dir |-> "", name |-> "a.png", isImage |-> TRUE, content |-> "A"],
      [dir |-> "", name |-> "b.png", isImage |-> TRUE, content |-> "B"],
      [dir |-> "sub", name |-> "a.png", isImage |-> TRUE, content |-> "A2"],
      [dir |-> "", name |-> "notes.txt", isImage |-> FALSE, content |-> "N"] }

\* What the destination directory may hold before the run.
StaleNames == {"a.png", "c.png"}

\* lines 44-55: the files under the directory that cv2.imread can read
get_all_image_filepaths(directory) ==
    GlobOrder({f \in directory : f.isImage})

\* Mutant: nothing counts as a duplicate.
IsDuplicate_Never(name, dups) == FALSE

\* line 79: image_filepath.name in duplicates
IsDuplicate(name, dups) == name \in dups

\* line 81: shutil.copyfile(image_filepath, destination_directory / name)
copyfile(dest, f) ==
    [n \in DOMAIN dest \cup {f.name} |-> IF n = f.name THEN f.content ELSE dest[n]]

InitDedup ==
    /\ script = "dedup"
    /\ pc = "dd_start"
    /\ IdleClean /\ IdleGoogle /\ IdleWalmart /\ IdleLog /\ IdleModelFiles
    /\ summarise \in BOOLEAN
    /\ sourceTree \in SUBSET DedupUniverse
    /\ duplicates = {}
    /\ \/ ddDestExists = FALSE /\ ddDest = NoFiles
       \/ ddDestExists = TRUE /\ \E S \in SUBSET StaleNames : ddDest = [n \in S |-> "stale"]
    /\ all_image_filepaths = <<>>
    /\ ddIdx = 0

\* lines 59-71: the deduplicator names the files to remove
FindDuplicates ==
    /\ script = "dedup" /\ pc = "dd_start"
    /\ \E d \in SUBSET {f.name : f \in {g \in sourceTree : g.isImage /\ g.dir = ""}} :
          duplicates' = d
    /\ pc' = "dd_mkdir"
    /\ UNCHANGED <<script, summarise, sourceTree, ddDestExists, ddDest, all_image_filepaths, ddIdx>>
    /\ UNCHANGED notDedup

\* lines 76-77
MkdirDedup ==
    /\ script = "dedup" /\ pc = "dd_mkdir"
    /\ ddDestExists' = TRUE
    /\ all_image_filepaths' = get_all_image_filepaths(sourceTree)
    /\ pc' = "dd_copy"
    /\ UNCHANGED <<script, summarise, sourceTree, duplicates, ddDest, ddIdx>>
    /\ UNCHANGED notDedup

\* lines 78-81: one iteration of the copy loop, or its end
CopyNext ==
    /\ script = "dedup" /\ pc = "dd_copy"
    /\ IF ddIdx < Len(all_image_filepaths)
       THEN LET image_filepath == all_image_filepaths[ddIdx + 1]
            IN /\ ddIdx' = ddIdx + 1
               /\ ddDest' = IF IsDuplicate(image_filepath.name, duplicates)
                            THEN ddDest
                            ELSE copyfile(ddDest, image_filepath)
               /\ UNCHANGED pc
       ELSE /\ pc' = "dd_summary"
            /\ UNCHANGED <<ddIdx, ddDest>>
    /\ UNCHANGED <<script, summarise, sourceTree, duplicates, ddDestExists, all_image_filepaths>>
    /\ UNCHANGED notDedup

\* lines 83-92: the report divides by the number of images
Summarise ==
    /\ script = "dedup" /\ pc = "dd_summary"
    /\ pc' = IF summarise /\ Len(all_image_filepaths) = 0 THEN "crashed" ELSE "dd_done"
    /\ UNCHANGED <<script, summarise, sourceTree, duplicates, ddDestExists, ddDest,
                   all_image_filepaths, ddIdx>>
    /\ UNCHANGED notDedup

NextDedup == FindDuplicates \/ MkdirDedup \/ CopyNext \/ Summarise

SpecDedup == InitDedup /\ [][NextDedup]_vars

----------------------------------------------------------------------------
(* scrape_google_images.py *)

\* The lists of src values one clicked thumbnail may show.
PreviewLists ==
    UNION {[1..n -> GoogleSrcs] : n \in 0..MaxPreviews}

\* Mutant: the seen-set is not consulted.
AlreadySeen_Never(src, seen) == FALSE

\* line 41: src in links
AlreadySeen(src, seen) == src \in seen

\* line 29 and line 53: the scraper has what it was asked for
EnoughLinks(seen, max) == Cardinality(seen) >= max

InitGoogle ==
    /\ script = "google"
    /\ pc = "g_while"
    /\ IdleClean /\ IdleDedup /\ IdleWalmart /\ IdleLog /\ IdleModelFiles
    /\ max_images \in 1..MaxImagesArg
    /\ links = {}
    /\ offset_index = 0
    /\ nThumbnails = 0
    /\ thumb = 0
    /\ images = <<>>

\* lines 29-33: the while test, and a scroll that may bring more thumbnails
GoogleWhile ==
    /\ script = "google" /\ pc = "g_while"
    /\ IF ~EnoughLinks(links, max_images)
       THEN /\ \E n \in nThumbnails..MaxThumbnails : nThumbnails' = n
            /\ thumb' = offset_index
            /\ pc' = "g_for"
       ELSE /\ pc' = "g_done"
            /\ UNCHANGED <<nThumbnails, thumb>>
    /\ UNCHANGED <<script, max_images, links, offset_index, images, logVars>>
    /\ UNCHANGED notGoogle

\* lines 34-37 and 50-51, 54: the next thumbnail is clicked, or the for loop ends
GoogleThumbnail ==
    /\ script = "google" /\ pc = "g_for"
    /\ IF thumb < nThumbnails
       THEN /\ thumb' = thumb + 1
            /\ \/ \* the click raises: except, continue
                  /\ images' = <<>>
                  /\ UNCHANGED pc
               \/ \E l \in PreviewLists :
                     /\ images' = l
                     /\ pc' = "g_img"
            /\ UNCHANGED offset_index
       ELSE /\ offset_index' = nThumbnails
            /\ pc' = "g_while"
            /\ UNCHANGED <<thumb, images>>
    /\ UNCHANGED <<script, max_images, links, nThumbnails, logVars>>
    /\ UNCHANGED notGoogle

\* lines 38-53: one img.n3VNCb element of the clicked thumbnail, or the end
\* of the list and the test of line 53
GoogleImage ==
    /\ script = "google" /\ pc = "g_img"
    /\ IF images # <<>>
       THEN LET src == Head(images)
            IN IF src = NoSrc
               THEN /\ \/ images' = Tail(images) /\ UNCHANGED pc
                       \/ \* get_attribute raises: except, continue
                          images' = <<>> /\ pc' = "g_for"
                    /\ UNCHANGED <<links, offset_index, logVars>>
               ELSE IF AlreadySeen(src, links)
               THEN /\ images' = Tail(images)
                    /\ seenAgain' = seenAgain \cup {src}
                    /\ UNCHANGED <<pc, links, offset_index, downloads, failed>>
               ELSE /\ links' = links \cup {src}
                    /\ downloads' = [downloads EXCEPT ![src] = @ + 1]
                    /\ \/ \* the file is written
                          /\ images' = Tail(images)
                          /\ UNCHANGED <<pc, failed>>
                       \/ \* requests.get raises: except, continue
                          /\ failed' = failed \cup {src}
                          /\ images' = <<>>
                          /\ pc' = "g_for"
                    /\ UNCHANGED <<offset_index, seenAgain>>
       ELSE /\ IF EnoughLinks(links, max_images)
               THEN offset_index' = nThumbnails /\ pc' = "g_while"
               ELSE pc' = "g_for" /\ UNCHANGED offset_index
            /\ UNCHANGED <<images, links, logVars>>
    /\ UNCHANGED <<script, max_images, nThumbnails, thumb>>
    /\ UNCHANGED notGoogle

NextGoogle == GoogleWhile \/ GoogleThumbnail \/ GoogleImage

----------------------------------------------------------------------------
(* scrape_walmart_images.py *)

\* The values --sources may take.
SourceLists ==
    { <<"ca">>, <<"com">>, <<"ca", "com">>, <<"com", "ca">>, <<"ca", "ca">> }

\* The original image URLs of a page's thumbnails (lines 148-152, 193-197).
PageImages(thumbnails) == {get_walmart_image(u) : u \in thumbnails} \ {NoSrc}

\* lines 137, 181: max_page is None or progress.n < max_page
MorePages(max, n) == max = NoMaxPage \/ n < max

InitWalmart ==
    /\ script = "walmart"
    /\ pc = "w_source"
    /\ IdleClean /\ IdleDedup /\ IdleGoogle /\ IdleLog /\ IdleModelFiles
    /\ sources \in SourceLists
    /\ max_page = NoMaxPage
    /\ progress_n = 0
    /\ fnResult = {}
    /\ result = {}
    /\ pending = {}
    /\ asked = NotAsked

\* lines 210-218: the next source's scrape function is called, or the
\* download loop starts
WalmartSource ==
    /\ script = "walmart" /\ pc = "w_source"
    /\ IF sources # <<>>
       THEN /\ pc' = IF Head(sources) = "ca" THEN "ca_root" ELSE "com_root"
            /\ UNCHANGED pending
       ELSE /\ pending' = result
            /\ pc' = "w_download"
    /\ UNCHANGED <<script, sources, max_page, progress_n, fnResult, result, asked, logVars>>
    /\ UNCHANGED notWalmart

\* lines 122-135: the first request of scrape_walmart_ca finds the last page
\* number, or none
CaRoot ==
    /\ script = "walmart" /\ pc = "ca_root"
    /\ \E m \in {NoMaxPage} \cup 1..MaxPage : max_page' = m
    /\ progress_n' = 0
    /\ fnResult' = {}
    /\ asked' = NotAsked
    /\ pc' = "ca_page"
    /\ UNCHANGED <<script, sources, result, pending, logVars>>
    /\ UNCHANGED notWalmart

\* lines 137-156: one pass of the paging loop of scrape_walmart_ca, or its return
CaPage ==
    /\ script = "walmart" /\ pc = "ca_page"
    /\ \/ /\ MorePages(max_page, progress_n)
          /\ \E products \in SUBSET CaThumbs :
                /\ products # {} => progress_n < MaxPage
                /\ IF products = {}
                   THEN \* break, return result
                        /\ asked' = NotAsked
                        /\ result' = result \cup fnResult
                        /\ seenAgain' = seenAgain \cup (result \cap fnResult)
                        /\ sources' = Tail(sources)
                        /\ pc' = "w_source"
                        /\ UNCHANGED <<progress_n, fnResult>>
                   ELSE /\ asked' = NotAsked
                        /\ fnResult' = fnResult \cup PageImages(products)
                        /\ seenAgain' = seenAgain \cup (fnResult \cap PageImages(products))
                        /\ progress_n' = progress_n + 1
                        /\ UNCHANGED <<pc, result, sources>>
       \/ /\ ~MorePages(max_page, progress_n)
          /\ result' = result \cup fnResult
          /\ seenAgain' = seenAgain \cup (result \cap fnResult)
          /\ sources' = Tail(sources)
          /\ asked' = NotAsked
          /\ pc' = "w_source"
          /\ UNCHANGED <<progress_n, fnResult>>
    /\ UNCHANGED <<script, max_page, pending, downloads, failed>>
    /\ UNCHANGED notWalmart

\* lines 163-179: scrape_walmart_com asks for page 1 until it finds a
\* paginator list, then reads the last page number, or none
ComRoot ==
    /\ script = "walmart" /\ pc = "com_root"
    /\ \/ \* paginator_list is None: continue
          UNCHANGED <<pc, max_page, progress_n, fnResult, asked>>
       \/ /\ \E m \in {NoMaxPage} \cup 1..MaxPage : max_page' = m
          /\ progress_n' = 0
          /\ fnResult' = {}
          /\ asked' = NotAsked
          /\ pc' = "com_page"
    /\ UNCHANGED <<script, sources, result, pending, logVars>>
    /\ UNCHANGED notWalmart

\* lines 181-201: one request of the paging loop of scrape_walmart_com, or
\* its return
ComPage ==
    /\ script = "walmart" /\ pc = "com_page"
    /\ \/ /\ MorePages(max_page, progress_n)
          /\ \E imgs \in SUBSET ComThumbs :
                /\ imgs # {} => progress_n < MaxPage
                /\ IF imgs # {}
                   THEN /\ fnResult' = fnResult \cup PageImages(imgs)
                        /\ seenAgain' = seenAgain \cup (fnResult \cap PageImages(imgs))
                        /\ progress_n' = progress_n + 1
                        /\ asked' = NotAsked
                        /\ UNCHANGED pc
                   ELSE IF max_page = NoMaxPage
                   THEN \* progress.n = None, then progress.update(1) raises
                        /\ pc' = "crashed"
                        /\ asked' = Ask(asked)
                        /\ UNCHANGED <<fnResult, seenAgain, progress_n>>
                   ELSE \* the same page is asked for again
                        /\ asked' = Ask(asked)
                        /\ UNCHANGED <<pc, fnResult, seenAgain, progress_n>>
          /\ UNCHANGED <<result, sources>>
       \/ /\ ~MorePages(max_page, progress_n)
          /\ result' = result \cup fnResult
          /\ seenAgain' = seenAgain \cup (result \cap fnResult)
          /\ sources' = Tail(sources)
          /\ asked' = NotAsked
          /\ pc' = "w_source"
          /\ UNCHANGED <<progress_n, fnResult>>
    /\ UNCHANGED <<script, max_page, pending, downloads, failed>>
    /\ UNCHANGED notWalmart

\* lines 220-227: one URL of the download loop, or its end
WalmartDownload ==
    /\ script = "walmart" /\ pc = "w_download"
    /\ IF pending # {}
       THEN \E url \in pending :
               /\ pending' = pending \ {url}
               /\ downloads' = [downloads EXCEPT ![url] = @ + 1]
               /\ \/ \* the file is written
                     UNCHANGED <<pc, failed>>
                  \/ \* requests.get raises
                     /\ failed' = failed \cup {url}
                     /\ pc' = "crashed"
       ELSE /\ pc' = "w_done"
            /\ UNCHANGED <<pending, downloads, failed>>
    /\ UNCHANGED <<script, sources, max_page, progress_n, fnResult, result, asked, seenAgain>>
    /\ UNCHANGED notWalmart

NextWalmart == WalmartSource \/ CaRoot \/ CaPage \/ ComRoot \/ ComPage \/ WalmartDownload

----------------------------------------------------------------------------
(* face_detection.py: the cache of the face detector's model files *)

\* A file's content is a sequence of bytes; a byte is 0 or 1.
Contents == UNION {[1..n -> {0, 1}] : n \in 0..MaxFileLen}

\* The path does not exist.
Absent == <<2>>

\* hashlib.md5: h.update(chunk) for the chunks in order digests their
\* concatenation; distinct contents may share a digest.
RECURSIVE md5(_, _)
md5(h, bytes) ==
    IF bytes = <<>> THEN h
    ELSE md5((2 * h + Head(bytes) + 1) % DigestSpace, Tail(bytes))

\* get_md5_from_file returned None (line 45)
NoDigest == -1

\* lines 33-55
get_md5_from_file(file) ==
    IF file = Absent THEN NoDigest ELSE md5(0, file)

\* The files the two URLs are meant to serve.
GenuineFile == [prototxt |-> <<0, 1>>, model_weights |-> <<1>>]

\* lines 61-72
DEFAULT_FILES ==
    [prototxt |->
        [md5 |-> md5(0, GenuineFile.prototxt),
         url |-> "opencv/raw/3.4.0/deploy.prototxt",
         save_filename |-> "res10_deploy.prototxt"],
     model_weights |->
        [md5 |-> md5(0, GenuineFile.model_weights),
         url |-> "opencv_3rdparty/raw/res10_300x300_ssd_iter_140000.caffemodel",
         save_filename |-> "res10_300x300_ssd_iter_140000.caffemodel"]]

\* _DEFAULT_FILES.items(): a dict keeps the order of its literal
FileKeys == <<"prototxt", "model_weights">>

\* Mutant: any file that exists is reused.
SkipDownload_IfExists(digest, known) == digest # NoDigest

\* line 82: get_md5_from_file(destination_filepath) == file['md5']
SkipDownload(digest, known) == digest = known

Prefixes(bytes) == {SubSeq(bytes, 1, n) : n \in 0..Len(bytes)}

InitModelFiles ==
    /\ script = "model_files"
    /\ pc = "mf_loop"
    /\ IdleClean /\ IdleDedup /\ IdleGoogle /\ IdleWalmart /\ IdleLog
    /\ cache \in [{"prototxt", "model_weights"} -> Contents \cup {Absent}]
    /\ nChecked = 0
    /\ requested = <<>>
    /\ reused = {}

\* lines 78-85: one entry of _DEFAULT_FILES (with download_file, lines
\* 12-31, when it is called), or the return
CheckModelFile ==
    /\ script = "model_files" /\ pc = "mf_loop"
    /\ IF nChecked < Len(FileKeys)
       THEN LET file_key == FileKeys[nChecked + 1]
                file == DEFAULT_FILES[file_key]
            IN IF SkipDownload(get_md5_from_file(cache[file_key]), file.md5)
               THEN /\ reused' = reused \cup {file_key}
                    /\ nChecked' = nChecked + 1
                    /\ UNCHANGED <<pc, cache, requested>>
               ELSE /\ requested' = Append(requested, file.url)
                    /\ UNCHANGED reused
                    /\ \/ \* requests.get raises: the file is not opened
                          /\ pc' = "crashed"
                          /\ UNCHANGED <<cache, nChecked>>
                       \/ \* the server's body is written, whole or, when
                          \* the headers or the stream fail, in part
                          \E body \in Contents :
                             \/ /\ cache' = [cache EXCEPT ![file_key] = body]
                                /\ nChecked' = nChecked + 1
                                /\ UNCHANGED pc
                             \/ \E part \in Prefixes(body) :
                                   /\ cache' = [cache EXCEPT ![file_key] = part]
                                   /\ pc' = "crashed"
                                   /\ UNCHANGED nChecked
       ELSE /\ pc' = "mf_returned"
            /\ UNCHANGED modelFileVars
    /\ UNCHANGED script
    /\ UNCHANGED notModelFiles

NextModelFiles == CheckModelFile

SpecModelFiles == InitModelFiles /\ [][NextModelFiles]_vars

----------------------------------------------------------------------------
(* The scrapers together, and all the scripts *)

InitScrape == InitGoogle \/ InitWalmart

NextScrape ==
    \/ GoogleWhile \/ GoogleThumbnail \/ GoogleImage
    \/ WalmartSource \/ CaRoot \/ CaPage \/ ComRoot \/ ComPage \/ WalmartDownload

SpecScrape == InitScrape /\ [][NextScrape]_vars

Init == InitClean \/ InitUtils \/ InitDedup \/ InitScrape \/ InitModelFiles

Next ==
    \/ CheckDestination \/ Rmtree \/ RmtreeWait \/ Mkdir \/ NextFile \/ DetectFaces \/ ProcessImage
    \/ FindDuplicates \/ MkdirDedup \/ CopyNext \/ Summarise
    \/ GoogleWhile \/ GoogleThumbnail \/ GoogleImage
    \/ WalmartSource \/ CaRoot \/ CaPage \/ ComRoot \/ ComPage \/ WalmartDownload
    \/ CheckModelFile
    \/ UtilsRmtree

Spec == Init /\ [][Next]_vars

----------------------------------------------------------------------------
(* Properties of the cleaning pipeline (SpecClean) *)

\* The iteration for files[idx] has evaluated the area-ratio filter.
FilterEvaluated == outcome \in {"ratio_rejected", "written", "save_failed"}

\* The face area and the area of the image cropped to the subject box,
\* read from the detector's and the segmenter's results.
FaceArea ==
    LET f == face_detection_results[1] IN (f[3] - f[1]) * (f[4] - f[2])
CroppedArea ==
    (bounding_box[3] - bounding_box[1]) * (bounding_box[4] - bounding_box[2])
OriginalArea == MaxX * MaxY

SavedFrom(i) == {n \in DOMAIN destFiles : destFiles[n] = i}

\* C1: an image for which the face detector returned zero faces, or two or
\* more, has no file written for it: nothing was saved for it and no file
\* of the destination comes from it.
C1_NoOutputUnlessOneFace ==
    (idx > 0 /\ Len(face_detection_results) # 1)
        => /\ yielded[idx] = {}
           /\ SavedFrom(idx) = {}
           /\ outcome \in {"none", "face_count", "unreadable"}

C1_Witness ==
    /\ outcome = "face_count"
    /\ Len(face_detection_results) = 2
    /\ idx = 2
    /\ SavedFrom(1) # {}

\* C2: in every state, each source image has yielded at most one Processed
\* Image, named <stem>.png; the image being processed has one only if the
\* detector found exactly one face and the face passed the area-ratio
\* filter; and a step saves a file only for the image being processed.
C2_StateInv ==
    \A i \in 1..Len(files) :
        /\ Cardinality(yielded[i]) <= 1
        /\ \A n \in yielded[i] : n.stem = files[i].stem /\ n.ext = "png"
        /\ SavedFrom(i) \subseteq yielded[i]
        /\ i > idx => yielded[i] = {}
        /\ (i = idx /\ yielded[i] # {}) =>
              /\ Len(face_detection_results) = 1
              /\ FaceArea * threshold[2] <= threshold[1] * CroppedArea

C2_AtMostOneProcessedImage ==
    /\ []C2_StateInv
    /\ [][\A i \in 1..Len(files) :
             yielded'[i] # yielded[i] => (i = idx /\ pc = "segment")]_vars

C2_Witness ==
    /\ idx = 2
    /\ files[idx].ext = "jpg"
    /\ outcome = "written"
    /\ yielded[idx] = {[stem |-> "b", ext |-> "png"]}
    /\ yielded[1] = {[stem |-> "a", ext |-> "png"]}

C4_RatioOverCroppedArea ==
    /\ FilterEvaluated =>
          /\ face_image_ratio(face_detection_results[1], bounding_box)
                = <<FaceArea, CroppedArea>>
          /\ (outcome = "ratio_rejected")
                <=> (FaceArea * threshold[2] > threshold[1] * CroppedArea)
          /\ outcome = "ratio_rejected" => yielded[idx] = {}
    /\ face_image_ratio(<<0, 0, 100, 100>>, <<0, 0, 1000, 1000>>) = <<1 * 10000, 100 * 10000>>
    /\ ~RatioRejected(face_image_ratio(<<0, 0, 100, 100>>, <<0, 0, 1000, 1000>>), <<1, 20>>)
    /\ face_image_ratio(<<0, 0, 400, 400>>, <<0, 0, 1000, 1000>>) = <<16 * 10000, 100 * 10000>>
    /\ RatioRejected(face_image_ratio(<<0, 0, 400, 400>>, <<0, 0, 1000, 1000>>), <<1, 20>>)

\* The subject box is smaller than the image, and the decision differs from
\* the one the original image's area would give.
C4_Witness ==
    /\ outcome = "ratio_rejected"
    /\ CroppedArea < OriginalArea
    /\ FaceArea * threshold[2] <= threshold[1] * OriginalArea
    /\ yielded[idx] = {}

\* C5: with crop_faces the saved image is the subject-cropped image's full
\* width and its rows from face_bottom_y - 0.10 * face_height (to the
\* nearest row) down to the bottom, face_bottom_y being the face's bottom
\* edge minus the subject box's top offset; a face bottom at 200 with face
\* height 100 keeps the rows from 190.  Without crop_faces every row is kept.
C5_FaceCrop ==
    /\ (outcome = "written") =>
          LET f == face_detection_results[1]
              face_bottom_y == f[4] - bounding_box[2]
              face_height == f[4] - f[2]
              \* ten times the cut, face_bottom_y - 0.10 * face_height
              cut10 == 10 * face_bottom_y - face_height
          IN /\ image.width = bounding_box[3] - bounding_box[1]
             /\ image.bottom = bounding_box[4] - bounding_box[2]
             /\ crop_faces =>
                   /\ 10 * image.top - cut10 <= 5
                   /\ cut10 - 10 * image.top <= 5
                   /\ face_height % 10 = 0 => 10 * image.top = cut10
             /\ ~crop_faces => image.top = 0
    /\ FaceCropUpper(200, 100) = 190

C5_Witness ==
    /\ outcome = "written"
    /\ crop_faces
    /\ bounding_box[2] = 1
    /\ face_detection_results[1][4] = 10
    /\ face_detection_results[1][2] = 0
    /\ image.top = 8
    /\ image.bottom = 9

C9_DestinationHandling ==
    /\ [](pc \in {"loop", "detect", "segment", "done", "crashed"} => destExists)
    /\ [](answer = "no" => /\ pc = "aborted"
                           /\ idx = 0
                           /\ destExists
                           /\ DOMAIN destFiles # {}
                           /\ \A n \in DOMAIN destFiles : destFiles[n] = 0
                           /\ dataset_source = SourceFiles)
    /\ [](pc = "aborted" => answer = "no")
    /\ [](pc \in {"rmtree", "rm_wait"} => (yes \/ answer = "yes"))
    /\ [](pc = "rmtree" => (destExists /\ DOMAIN destFiles # {}))
    /\ [][(destExists /\ ~destExists') => pc \in {"rmtree", "rm_wait"}]_vars
    /\ [][(destFiles' # destFiles /\ pc \in {"start", "rmtree", "rm_wait", "mkdir"}) =>
             pc = "rmtree"]_vars
    /\ [][answer' = "no" => destFiles' = destFiles]_vars

C9_Witness ==
    /\ pc = "loop"
    /\ answer = "yes"
    /\ ~yes
    /\ destExists
    /\ DOMAIN destFiles = {}

\* C13 as stated: a call of the directory-removal helper (_rmtree or
\* rmtree) always ends by returning, never by raising, and at its return the
\* path is no longer a directory or the timeout has elapsed; the wait sees
\* at most the ticks of the timeout; the directory is created again only
\* after the helper returned.
C13_BoundedWaitBeforeReuse ==
    /\ [](pc # "rm_raised")
    /\ [](elapsed <= TimeoutTicks + 1)
    /\ [][(pc \in {"rmtree", "rm_wait"} /\ pc' \notin {"rmtree", "rm_wait"}) =>
             /\ pc' \in {"mkdir", "rm_returned"}
             /\ ~destExists' \/ ~WithinTimeout(elapsed')]_vars
    /\ [][(pc \in {"rmtree", "rm_wait"}) =>
             /\ destExists' => destExists
             /\ Len(files') = 0]_vars

\* The files the loop has saved an image for.
Passed == {i \in 1..Len(yielded) : yielded[i] # {}}

\* C14 as stated: at the end of the run the destination holds as many
\* files as there are source images that passed all the filters, no two of
\* them share an output file, and no source file is in the list twice.
C14_NoOutputOverwritten ==
    /\ pc = "done" => Cardinality(DOMAIN destFiles) = Cardinality(Passed)
    /\ \A i, j \in Passed : i # j => yielded[i] \cap yielded[j] = {}
    /\ \A i, j \in 1..Len(files) : i # j => files[i] # files[j]

\* C15 as stated: whatever --destination is, every file of the source
\* dataset directory is in place and as it was at every step of the run.
C15_SourceUntouched ==
    script = "clean" => dataset_source = SourceFiles

----------------------------------------------------------------------------
(* Properties of the deduplication script (SpecDedup) *)

CopyLoopOver == script = "dedup" /\ pc \in {"dd_summary", "dd_done", "crashed"}

SourceImages == {f \in sourceTree : f.isImage}

----------------------------------------------------------------------------
(* Properties of the scrapers (SpecScrape) *)

\* C7 as stated: a download that fails does not abort the batch.
C7_FailureDoesNotAbort ==
    failed # {} => pc # "crashed"

\* C8: no URL string is downloaded more than once in a run, however often
\* it is met: the Google scraper downloads exactly the URLs of its seen-set,
\* once each, and the Walmart scraper downloads URLs of its result set only,
\* once each.
C8_NoUrlDownloadedTwice ==
    \A u \in AllUrls :
        /\ downloads[u] <= 1
        /\ script = "google" => (downloads[u] = 1 <=> u \in links)
        /\ script = "walmart" =>
              /\ downloads[u] = 1 => u \in result \ pending
              /\ (pc = "w_download" /\ u \in result \ pending) => downloads[u] = 1
              /\ pc = "w_done" => (downloads[u] = 1 <=> u \in result)
        /\ u \in seenAgain => (u \in links \/ u \in fnResult \/ u \in result)

\* A URL met again under a later thumbnail was downloaded once.
C8_Witness ==
    /\ script = "google"
    /\ pc = "g_done"
    /\ thumb >= 2
    /\ \E u \in seenAgain : downloads[u] = 1 /\ u \notin failed

\* C12 as stated: the Google Images scraper never holds more collected
\* links, nor has fetched more URLs, than --max-images.
C12_AtMostMaxImages ==
    script = "google" =>
        /\ Cardinality(links) <= max_images
        /\ Cardinality({u \in AllUrls : downloads[u] > 0}) <= max_images

----------------------------------------------------------------------------
(* Properties of the model-file cache (SpecModelFiles) *)

\* The cached copy of the file exists and its MD5 is the known-good one.
CachedCopyValid(file_key) ==
    /\ cache[file_key] # Absent
    /\ md5(0, cache[file_key]) = DEFAULT_FILES[file_key].md5

\* C11: when get_default_model_files comes to one of the two files, the
\* cached copy is kept as it is and nothing is requested if and only if the
\* copy exists and its MD5 equals the known-good value; otherwise (the file
\* is absent or its MD5 differs) exactly one download is requested, from
\* that file's own URL, and the other file's cached copy is not touched.
\* The function returns only after both files were reused or written whole.
C11_CacheValidatedBeforeReuse ==
    /\ [](script = "model_files" =>
            /\ reused \subseteq {FileKeys[i] : i \in 1..nChecked}
            /\ Len(requested) + Cardinality(reused) \in {nChecked, nChecked + 1}
            /\ pc = "mf_returned" =>
                  /\ nChecked = Len(FileKeys)
                  /\ Len(requested) + Cardinality(reused) = Len(FileKeys))
    /\ [][(script = "model_files" /\ pc = "mf_loop" /\ nChecked < Len(FileKeys)) =>
            LET file_key == FileKeys[nChecked + 1]
            IN /\ \A k \in DOMAIN cache \ {file_key} : cache'[k] = cache[k]
               /\ IF CachedCopyValid(file_key)
                  THEN /\ requested' = requested
                       /\ cache' = cache
                       /\ reused' = reused \cup {file_key}
                       /\ nChecked' = nChecked + 1
                  ELSE /\ requested' = Append(requested, DEFAULT_FILES[file_key].url)
                       /\ reused' = reused
                       /\ file_key \notin reused'
          ]_vars

\* A run that reused a valid prototxt and downloaded the weights, whose
\* cached copy existed with another MD5.
C11_Witness ==
    /\ script = "model_files"
    /\ pc = "mf_returned"
    /\ reused = {"prototxt"}
    /\ requested = <<DEFAULT_FILES.model_weights.url>>
    /\ cache.prototxt = GenuineFile.prototxt

----------------------------------------------------------------------------
(* Properties of the Walmart paging loops (SpecScrape) *)

\* C16 as stated: a paging loop requests the page it is at once and not
\* again, requests no page beyond a maximum page number that was found,
\* and a scrape function ends by returning: with no maximum page number the
\* first page without items ends the loop.
C16_PagingLoopStops ==
    script = "walmart" =>
        /\ asked <= 1
        /\ (pc \in {"ca_page", "com_page"} /\ asked > 0 /\ max_page # NoMaxPage) =>
              progress_n + 1 <= max_page
        /\ pc = "crashed" => sources = <<>>

====
